---------------------------- MODULE Spec2Model ----------------------------
(***************************************************************************)
(* Monte Carlo tennis match simulator                                      *)
(* (code/replication/referee2_replicate_mc_engine.py).                     *)
(*                                                                         *)
(* Probabilities are the source's floats written as integer percentages   *)
(* (0.62 is 62); a draw of random.random() is a percentage in 0..99.  A    *)
(* comparison  u < a / b  of the source is written  u * b < a * Scale,     *)
(* which is the same comparison whenever b > 0, and b > 0 on every path    *)
(* that reaches a division (see simulate_point).                           *)
(*                                                                         *)
(* An Optional value of the source is a sequence: <<>> is None and <<v>>   *)
(* is the value v.                                                         *)
(***************************************************************************)
EXTENDS Integers, Sequences, FiniteSets, TLC

VARIABLES
    cfg,     \* the module globals USE_OPPONENT_ADJUSTMENT, AVG_RETURN_VS_*
    rng,     \* state of the `random` module's generator (<<>>: never seeded)
    np_rng,  \* state of numpy's generator
    pc,      \* where control is
    pt,      \* frame of simulate_point
    gm,      \* frame of simulate_game
    tb,      \* frame of simulate_tiebreak
    st,      \* frame of simulate_set
    mt,      \* frame of simulate_match
    es,      \* frame of estimate_win_probability
    hs       \* the calling harness: what it remembers of the calls it made

vars == <<cfg, rng, np_rng, pc, pt, gm, tb, st, mt, es, hs>>

---------------------------------------------------------------------------
(* Optional values *)

None == <<>>

Some(v) == <<v>>

Val(o) == o[1]

---------------------------------------------------------------------------
(* Bounds of the model *)

\* a game is followed for at most this many points
MaxGamePoints == 30

\* a tiebreak is followed for at most this many points beyond 2 * to_points
MaxTiebreakExtra == 10

\* an advantage set is followed for at most this many games
MaxSetGames == 24

\* the generator states the harness may leave behind before a call
MaxPreState == 1

\* the largest n_sims the harness passes
MaxSims == 2

\* simulate_match is followed from the generator seeded with 0..MaxMatchSeed
MaxMatchSeed == 40

---------------------------------------------------------------------------
(* Configuration, lines 24-30 *)

Scale == 100

USE_OPPONENT_ADJUSTMENT == TRUE

AVG_RETURN_VS_FIRST == 35

AVG_RETURN_VS_SECOND == 50

Config ==
    [USE_OPPONENT_ADJUSTMENT |-> USE_OPPONENT_ADJUSTMENT,
     AVG_RETURN_VS_FIRST |-> AVG_RETURN_VS_FIRST,
     AVG_RETURN_VS_SECOND |-> AVG_RETURN_VS_SECOND]

---------------------------------------------------------------------------
(* PlayerStats, lines 37-46, and the four records the harness builds *)

PlayerStats(fi, fw, sw, ace, df, rf, rs) ==
    [first_in_pct |-> fi, first_won_pct |-> fw, second_won_pct |-> sw,
     ace_pct |-> ace, df_pct |-> df,
     return_vs_first |-> rf, return_vs_second |-> rs]

player1 == PlayerStats(62, 75, 52, 8, 3, Some(30), Some(50))

player2 == PlayerStats(65, 72, 50, 5, 4, Some(32), Some(52))

big_server == PlayerStats(58, 82, 58, 15, 5, Some(25), Some(45))

elite_returner == PlayerStats(68, 70, 48, 4, 2, Some(38), Some(56))

\* a record built with the two optional fields left at their default
NoReturnStats(s) == [s EXCEPT !.return_vs_first = None, !.return_vs_second = None]

Players == {player1, player2, big_server, elite_returner, NoReturnStats(player2)}

\* the pairs (p1_stats, p2_stats) of the harness's calls, and one without return rates
Matchups ==
    {<<player1, player2>>, <<big_server, elite_returner>>,
     <<player1, NoReturnStats(player2)>>}

OptBool == {None, Some(TRUE), Some(FALSE)}

\* PlayerStats holds plain floats and Optionals (lines 40-46): a caller can build
\* any record.  Two with rates at the far ends of [0, 1], consistent with one
\* another,
strong_server == PlayerStats(70, 95, 90, 10, 2, Some(10), Some(15))

weak_server == PlayerStats(50, 20, 10, 1, 10, Some(70), Some(90))

ExtremeStats == {strong_server, weak_server}

\* two with one of the optional return rates left at its default,
PartialStats ==
    {[player2 EXCEPT !.return_vs_first = None],
     [player2 EXCEPT !.return_vs_second = None]}

\* and records no player can have: first_in_pct 0, 1 and 1.5, a rate below 0,
\* ace_pct above first_in_pct, df_pct above 1 - first_in_pct
InvalidStats ==
    {PlayerStats(0, 75, 52, 0, 3, None, None),
     PlayerStats(100, 75, 52, 8, 0, None, None),
     PlayerStats(150, 75, 52, 8, 3, None, None),
     PlayerStats(62, -20, 52, 8, 3, None, None),
     PlayerStats(62, 75, 52, 70, 3, None, None),
     PlayerStats(62, 75, 52, 8, 50, None, None)}

\* the records simulate_point is called with, as server and as returner
PointServers == Players \cup ExtremeStats \cup InvalidStats

PointReturners ==
    {None} \cup {Some(p) : p \in Players \cup ExtremeStats \cup PartialStats}

---------------------------------------------------------------------------
(* The random source.  random.seed(s) puts the generator in a state that   *)
(* depends on s alone; every draw is a function of the state and moves the *)
(* generator to the next state.  A generator the program never seeded      *)
(* (state <<>>) was seeded from the operating system's entropy: its draws  *)
(* are arbitrary.                                                          *)

RngMod == 65521

RngMul == 17364

RngInc == 7

Draws == {0, 10, 50, 80, 99}

Seeded(seed) == Some((seed * 4099 + 1) % RngMod)

RngNext(s) == (s * RngMul + RngInc) % RngMod

RngOut(s) == (s \div 7) % Scale

RECURSIVE Advance(_, _)
Advance(r, n) ==
    IF r = None \/ n = 0 THEN r ELSE Advance(Some(RngNext(Val(r))), n - 1)

\* the values the next three calls of random.random() may return
DrawTriples(r) ==
    IF r = None
    THEN Draws \X Draws \X Draws
    ELSE LET s1 == RngNext(Val(r))
             s2 == RngNext(s1)
             s3 == RngNext(s2)
         IN {<<RngOut(s1), RngOut(s2), RngOut(s3)>>}

\* the values random.choice([1, 2]) may return
Choices(r) ==
    IF r = None THEN {1, 2} ELSE {1 + (RngOut(RngNext(Val(r))) % 2)}

---------------------------------------------------------------------------
(* simulate_point, lines 93-177 *)

PointResult(w, t, s) == [winner |-> w, point_type |-> t, serve |-> s]

Max(a, b) == IF a >= b THEN a ELSE b

Min(a, b) == IF a <= b THEN a ELSE b

\* lines 118-119
EffectiveAdjustment(use_adjustment, c) ==
    IF use_adjustment = None THEN c.USE_OPPONENT_ADJUSTMENT ELSE Val(use_adjustment)

\* the sum left as it is, outside [0.3, 0.95]
FirstWinProbUnclamped(server_stats, returner_stats, adj, c) ==
    IF adj /\ returner_stats # None /\ Val(returner_stats).return_vs_first # None
    THEN server_stats.first_won_pct
            + (c.AVG_RETURN_VS_FIRST - Val(Val(returner_stats).return_vs_first))
    ELSE server_stats.first_won_pct

\* lines 133-144
FirstWinProb(server_stats, returner_stats, adj, c) ==
    IF adj /\ returner_stats # None /\ Val(returner_stats).return_vs_first # None
    THEN LET adjustment == c.AVG_RETURN_VS_FIRST - Val(Val(returner_stats).return_vs_first)
             win_prob == server_stats.first_won_pct + adjustment
         IN Max(30, Min(95, win_prob))
    ELSE server_stats.first_won_pct

\* the adjustment made only when both return rates are known
SecondWinProbNeedsBoth(server_stats, returner_stats, adj, c) ==
    IF /\ adj
       /\ returner_stats # None
       /\ Val(returner_stats).return_vs_first # None
       /\ Val(returner_stats).return_vs_second # None
    THEN LET adjustment == c.AVG_RETURN_VS_SECOND - Val(Val(returner_stats).return_vs_second)
             win_prob == server_stats.second_won_pct + adjustment
         IN Max(20, Min(85, win_prob))
    ELSE server_stats.second_won_pct

\* lines 162-170
SecondWinProb(server_stats, returner_stats, adj, c) ==
    IF adj /\ returner_stats # None /\ Val(returner_stats).return_vs_second # None
    THEN LET adjustment == c.AVG_RETURN_VS_SECOND - Val(Val(returner_stats).return_vs_second)
             win_prob == server_stats.second_won_pct + adjustment
         IN Max(20, Min(85, win_prob))
    ELSE server_stats.second_won_pct

\* the comparison the wrong way round
FirstInInverted(server_stats, u) == u >= server_stats.first_in_pct

\* line 122
FirstIn(server_stats, u) == u < server_stats.first_in_pct

\* lines 128-129: u < ace_pct / first_in_pct, reached only with first_in_pct > u >= 0
IsAce(server_stats, u) == u * server_stats.first_in_pct < server_stats.ace_pct * Scale

\* lines 157-158: u < df_pct / (1 - first_in_pct), reached only with first_in_pct <= u < 1
IsDoubleFault(server_stats, u) ==
    u * (Scale - server_stats.first_in_pct) < server_stats.df_pct * Scale

\* The point played with the draws u[1], u[2], u[3] taken in this order; draws is
\* the part of u the call consumed, win_prob the local of that name when the
\* call came to assign it.
simulate_point(server_stats, returner_stats, use_adjustment, c, u) ==
    LET adj == EffectiveAdjustment(use_adjustment, c)
    IN IF FirstIn(server_stats, u[1])
       THEN IF IsAce(server_stats, u[2])
            THEN [result |-> PointResult(1, "ace", "first"), draws |-> <<u[1], u[2]>>,
                  win_prob |-> None]
            ELSE LET win_prob == FirstWinProb(server_stats, returner_stats, adj, c)
                     server_wins == u[3] < win_prob
                 IN [result |-> PointResult(IF server_wins THEN 1 ELSE 0, "rally", "first"),
                     draws |-> u, win_prob |-> Some(win_prob)]
       ELSE IF IsDoubleFault(server_stats, u[2])
            THEN [result |-> PointResult(0, "double_fault", "second"),
                  draws |-> <<u[1], u[2]>>, win_prob |-> None]
            ELSE LET win_prob == SecondWinProb(server_stats, returner_stats, adj, c)
                     server_wins == u[3] < win_prob
                 IN [result |-> PointResult(IF server_wins THEN 1 ELSE 0, "rally", "second"),
                     draws |-> u, win_prob |-> Some(win_prob)]

\* three draws taken whatever the point
PointOutcomesThreeDraws(r, server_stats, returner_stats, use_adjustment, c) ==
    {LET p == simulate_point(server_stats, returner_stats, use_adjustment, c, u)
     IN [result |-> p.result, draws |-> p.draws, win_prob |-> p.win_prob,
         rng |-> Advance(r, 3)] :
        u \in DrawTriples(r)}

\* every way one call of simulate_point can go from generator state r
PointOutcomes(r, server_stats, returner_stats, use_adjustment, c) ==
    {LET p == simulate_point(server_stats, returner_stats, use_adjustment, c, u)
     IN [result |-> p.result, draws |-> p.draws, win_prob |-> p.win_prob,
         rng |-> Advance(r, Len(p.draws))] :
        u \in DrawTriples(r)}

\* the call simulate_point(server_stats, returner_stats, use_adjustment)
PointCall(server_stats, returner_stats, use_adjustment) ==
    [server_stats |-> server_stats, returner_stats |-> returner_stats,
     use_adjustment |-> use_adjustment, draws |-> <<>>, win_prob |-> None,
     result |-> None]

\* line 119 assigning the global instead of the local
PointStepWritesFlag ==
    /\ pc = "point"
    /\ \E o \in PointOutcomes(rng, pt.server_stats, pt.returner_stats,
                              pt.use_adjustment, cfg) :
          /\ pt' = [pt EXCEPT !.draws = o.draws, !.win_prob = o.win_prob,
                              !.result = Some(o.result)]
          /\ rng' = o.rng
    /\ cfg' = [cfg EXCEPT !.USE_OPPONENT_ADJUSTMENT =
                  EffectiveAdjustment(pt.use_adjustment, cfg)]
    /\ pc' = "point_ret"
    /\ UNCHANGED <<np_rng, gm, tb, st, mt, es, hs>>

PointStep ==
    /\ pc = "point"
    /\ \E o \in PointOutcomes(rng, pt.server_stats, pt.returner_stats,
                              pt.use_adjustment, cfg) :
          /\ pt' = [pt EXCEPT !.draws = o.draws, !.win_prob = o.win_prob,
                              !.result = Some(o.result)]
          /\ rng' = o.rng
    /\ pc' = "point_ret"
    /\ UNCHANGED <<cfg, np_rng, gm, tb, st, mt, es, hs>>

\* generator states a caller may find: never seeded, or left by earlier use
PreStates == {None} \cup {Advance(Seeded(123), k) : k \in 0..MaxPreState}

InitPoint ==
    /\ cfg = Config
    /\ rng \in PreStates
    /\ np_rng = None
    /\ pc = "point"
    /\ \E s \in PointServers, r \in PointReturners, a \in OptBool :
          pt = PointCall(s, r, a)
    /\ gm = None /\ tb = None /\ st = None /\ mt = None /\ es = None /\ hs = None

NextPoint == PointStep

SpecPoint == InitPoint /\ [][NextPoint]_vars


---------------------------------------------------------------------------
(* simulate_game, lines 184-211 *)

GameResult(w, sp, rp) == [winner |-> w, score |-> <<sp, rp>>]

\* the results of simulate_point without the draws behind them
PointReturns(r, server_stats, returner_stats, use_adjustment, c) ==
    {[result |-> o.result, rng |-> o.rng] :
        o \in PointOutcomes(r, server_stats, returner_stats, use_adjustment, c)}

\* PointReturns of a generator that was never seeded, worked out once for the
\* players of the model
UnseededPoints ==
    {<<a, PointReturns(None, a[1], a[2], a[3], Config)>> :
        a \in Players \X {Some(p) : p \in Players} \X OptBool}

PointResults(r, server_stats, returner_stats, use_adjustment, c) ==
    LET a == <<server_stats, returner_stats, use_adjustment>>
    IN IF r = None /\ c = Config /\ \E e \in UnseededPoints : e[1] = a
       THEN (CHOOSE e \in UnseededPoints : e[1] = a)[2]
       ELSE PointReturns(r, server_stats, returner_stats, use_adjustment, c)

\* the call simulate_game(server_stats, returner_stats, use_adjustment), lines 196-197
GameCall(server_stats, returner_stats, use_adjustment) ==
    [server_stats |-> server_stats, returner_stats |-> returner_stats,
     use_adjustment |-> use_adjustment,
     server_points |-> 0, returner_points |-> 0,
     point_result |-> None, result |-> None]

\* the game given to the first side with 4 points, whatever the margin
GameCheckNoMargin(server_points, returner_points) ==
    IF server_points >= 4
    THEN Some(GameResult(1, server_points, returner_points))
    ELSE IF returner_points >= 4
         THEN Some(GameResult(0, server_points, returner_points))
         ELSE None

\* the game given only at a lead of 3
GameCheckLeadOfThree(server_points, returner_points) ==
    IF server_points >= 4 /\ server_points - returner_points >= 3
    THEN Some(GameResult(1, server_points, returner_points))
    ELSE IF returner_points >= 4 /\ returner_points - server_points >= 3
         THEN Some(GameResult(0, server_points, returner_points))
         ELSE None

\* lines 208-211
GameCheck(server_points, returner_points) ==
    IF server_points >= 4 /\ server_points - returner_points >= 2
    THEN Some(GameResult(1, server_points, returner_points))
    ELSE IF returner_points >= 4 /\ returner_points - server_points >= 2
         THEN Some(GameResult(0, server_points, returner_points))
         ELSE None

\* lines 202-211: the rest of one turn of the loop, after the point o
GameAfterPoint(g, o) ==
    LET server_points ==
            IF o.result.winner = 1 THEN g.server_points + 1 ELSE g.server_points
        returner_points ==
            IF o.result.winner = 1 THEN g.returner_points ELSE g.returner_points + 1
    IN [gm |-> [g EXCEPT !.server_points = server_points,
                         !.returner_points = returner_points,
                         !.point_result = Some(o.result),
                         !.result = GameCheck(server_points, returner_points)],
        rng |-> o.rng]

\* one turn of the loop of lines 199-211, the point being one of outs
GameTurn(g, outs) ==
    IF g.result # None \/ g.server_points + g.returner_points >= MaxGamePoints
    THEN {}
    ELSE {GameAfterPoint(g, o) : o \in outs}

GameStep ==
    /\ pc = "game"
    /\ \E x \in GameTurn(gm, PointResults(rng, gm.server_stats, gm.returner_stats,
                                          gm.use_adjustment, cfg)) :
          /\ gm' = x.gm
          /\ rng' = x.rng
          /\ pc' = IF x.gm.result = None THEN "game" ELSE "game_ret"
    /\ UNCHANGED <<cfg, np_rng, pt, tb, st, mt, es, hs>>

InitGame ==
    /\ cfg = Config
    /\ rng \in PreStates
    /\ np_rng = None
    /\ pc = "game"
    /\ \E s \in Players, r \in {None} \cup {Some(p) : p \in Players}, a \in OptBool :
          gm = GameCall(s, r, a)
    /\ pt = None /\ tb = None /\ st = None /\ mt = None /\ es = None /\ hs = None

NextGame == GameStep

SpecGame == InitGame /\ [][NextGame]_vars

\* The whole call, for a caller: every (GameResult, generator state) the loop can
\* return with.  A local variable of the loop is dead once the turn is over, so
\* point_result is dropped from the states the loop is followed through.
RECURSIVE GameRun(_, _)
GameRun(front, c) ==
    LET next == UNION {GameTurn(x.gm,
                                PointResults(x.rng, x.gm.server_stats,
                                             x.gm.returner_stats,
                                             x.gm.use_adjustment, c)) : x \in front}
        seen == {[x EXCEPT !.gm.point_result = None] : x \in next}
        done == {x \in seen : x.gm.result # None}
        live == seen \ done
    IN IF live = {} THEN done ELSE done \cup GameRun(live, c)

GameReturns(r, server_stats, returner_stats, use_adjustment, c) ==
    {[result |-> Val(x.gm.result), rng |-> x.rng] :
        x \in GameRun({[gm |-> GameCall(server_stats, returner_stats, use_adjustment),
                        rng |-> r]}, c)}

\* GameReturns of a generator that was never seeded, worked out once for the
\* players of the model
UnseededGames ==
    {<<a, GameReturns(None, a[1], a[2], a[3], Config)>> :
        a \in Players \X {Some(p) : p \in Players} \X OptBool}

simulate_game(r, server_stats, returner_stats, use_adjustment, c) ==
    LET a == <<server_stats, returner_stats, use_adjustment>>
    IN IF r = None /\ c = Config /\ \E e \in UnseededGames : e[1] = a
       THEN (CHOOSE e \in UnseededGames : e[1] = a)[2]
       ELSE GameReturns(r, server_stats, returner_stats, use_adjustment, c)

---------------------------------------------------------------------------
(* simulate_tiebreak, lines 218-264 *)

TiebreakResult(w, p1, p2) == [winner |-> w, score |-> <<p1, p2>>]

\* the call simulate_tiebreak(p1_stats, p2_stats, to_points, use_adjustment),
\* lines 231-233; server_is_p1 is unbound until the first turn of the loop
TiebreakCall(p1_stats, p2_stats, to_points, use_adjustment) ==
    [p1_stats |-> p1_stats, p2_stats |-> p2_stats, to_points |-> to_points,
     use_adjustment |-> use_adjustment,
     p1_points |-> 0, p2_points |-> 0, point_num |-> 0,
     server_is_p1 |-> None, point_result |-> None, result |-> None]

\* lines 240-243
ServerIsP1(point_num) ==
    IF point_num = 0 THEN TRUE ELSE ((point_num - 1) \div 2) % 2 = 0

\* the server's point given to player 1 whoever serves
TiebreakPointWinnerUnmapped(server_is_p1, point_result) ==
    IF point_result.winner = 1 THEN 1 ELSE 2

\* lines 247 and 250: the point's winner as player 1 or 2
TiebreakPointWinner(server_is_p1, point_result) ==
    IF server_is_p1
    THEN (IF point_result.winner = 1 THEN 1 ELSE 2)
    ELSE (IF point_result.winner = 1 THEN 2 ELSE 1)

\* lines 261-264
TiebreakCheck(p1_points, p2_points, to_points) ==
    IF p1_points >= to_points /\ p1_points - p2_points >= 2
    THEN Some(TiebreakResult(1, p1_points, p2_points))
    ELSE IF p2_points >= to_points /\ p2_points - p1_points >= 2
         THEN Some(TiebreakResult(2, p1_points, p2_points))
         ELSE None

\* lines 245-264: the rest of one turn of the loop, after the point o
TiebreakAfterPoint(t, server_is_p1, o) ==
    LET point_winner == TiebreakPointWinner(server_is_p1, o.result)
        p1_points == IF point_winner = 1 THEN t.p1_points + 1 ELSE t.p1_points
        p2_points == IF point_winner = 1 THEN t.p2_points ELSE t.p2_points + 1
    IN [tb |-> [t EXCEPT !.server_is_p1 = Some(server_is_p1),
                         !.point_result = Some(o.result),
                         !.p1_points = p1_points,
                         !.p2_points = p2_points,
                         !.point_num = t.point_num + 1,
                         !.result = TiebreakCheck(p1_points, p2_points, t.to_points)],
        rng |-> o.rng]

\* one turn of the loop of lines 235-264; outs1 are the points player 1 can
\* serve to player 2 and outs2 those player 2 can serve to player 1
TiebreakTurn(t, outs1, outs2) ==
    IF t.result # None \/ t.point_num >= 2 * t.to_points + MaxTiebreakExtra
    THEN {}
    ELSE LET server_is_p1 == ServerIsP1(t.point_num)
         IN {TiebreakAfterPoint(t, server_is_p1, o) :
                o \in IF server_is_p1 THEN outs1 ELSE outs2}

TiebreakStep ==
    /\ pc = "tiebreak"
    /\ \E x \in TiebreakTurn(tb,
                    PointResults(rng, tb.p1_stats, Some(tb.p2_stats), tb.use_adjustment, cfg),
                    PointResults(rng, tb.p2_stats, Some(tb.p1_stats), tb.use_adjustment, cfg)) :
          /\ tb' = x.tb
          /\ rng' = x.rng
          /\ pc' = IF x.tb.result = None THEN "tiebreak" ELSE "tiebreak_ret"
    /\ UNCHANGED <<cfg, np_rng, pt, gm, st, mt, es, hs>>

\* the targets simulate_set passes (line 330)
TiebreakTargets == {7, 10}

InitTiebreak ==
    /\ cfg = Config
    /\ rng \in PreStates
    /\ np_rng = None
    /\ pc = "tiebreak"
    /\ \E m \in Matchups, n \in TiebreakTargets, a \in OptBool :
          tb = TiebreakCall(m[1], m[2], n, a)
    /\ pt = None /\ gm = None /\ st = None /\ mt = None /\ es = None /\ hs = None

NextTiebreak == TiebreakStep

SpecTiebreak == InitTiebreak /\ [][NextTiebreak]_vars

\* The whole call, for a caller (see GameRun).
RECURSIVE TiebreakRun(_, _)
TiebreakRun(front, c) ==
    LET next == UNION {TiebreakTurn(x.tb,
                          PointResults(x.rng, x.tb.p1_stats, Some(x.tb.p2_stats),
                                       x.tb.use_adjustment, c),
                          PointResults(x.rng, x.tb.p2_stats, Some(x.tb.p1_stats),
                                       x.tb.use_adjustment, c)) : x \in front}
        seen == {[x EXCEPT !.tb.point_result = None] : x \in next}
        done == {x \in seen : x.tb.result # None}
        live == seen \ done
    IN IF live = {} THEN done ELSE done \cup TiebreakRun(live, c)

TiebreakReturns(r, p1_stats, p2_stats, to_points, use_adjustment, c) ==
    {[result |-> Val(x.tb.result), rng |-> x.rng] :
        x \in TiebreakRun({[tb |-> TiebreakCall(p1_stats, p2_stats, to_points, use_adjustment),
                            rng |-> r]}, c)}

\* TiebreakReturns of a generator that was never seeded, worked out once for the
\* players of the model
UnseededTiebreaks ==
    {<<a, TiebreakReturns(None, a[1][1], a[1][2], a[2], a[3], Config)>> :
        a \in Matchups \X TiebreakTargets \X OptBool}

simulate_tiebreak(r, p1_stats, p2_stats, to_points, use_adjustment, c) ==
    LET a == <<<<p1_stats, p2_stats>>, to_points, use_adjustment>>
    IN IF r = None /\ c = Config /\ \E e \in UnseededTiebreaks : e[1] = a
       THEN (CHOOSE e \in UnseededTiebreaks : e[1] = a)[2]
       ELSE TiebreakReturns(r, p1_stats, p2_stats, to_points, use_adjustment, c)

---------------------------------------------------------------------------
(* simulate_set, lines 271-346 *)

SetResult(w, p1_games, p2_games, tiebreak, tiebreak_score) ==
    [winner |-> w, score |-> <<p1_games, p2_games>>,
     tiebreak |-> tiebreak, tiebreak_score |-> tiebreak_score]

Other(player) == IF player = 1 THEN 2 ELSE 1

\* the call simulate_set(p1_stats, p2_stats, first_server, tiebreak_at, final_set_tb,
\* use_adjustment), lines 289-291; tb_points and tb_result are unbound until a
\* tiebreak is played
SetCall(p1_stats, p2_stats, first_server, tiebreak_at, final_set_tb, use_adjustment) ==
    [p1_stats |-> p1_stats, p2_stats |-> p2_stats, first_server |-> first_server,
     tiebreak_at |-> tiebreak_at, final_set_tb |-> final_set_tb,
     use_adjustment |-> use_adjustment,
     p1_games |-> 0, p2_games |-> 0, current_server |-> first_server,
     tb_points |-> None, tb_result |-> None, result |-> None]

\* lines 295-300: the game of this turn, its winner as player 1 or 2
SetGames(s, r, c) ==
    IF s.current_server = 1
    THEN {[game_winner |-> IF g.result.winner = 1 THEN 1 ELSE 2, rng |-> g.rng] :
            g \in simulate_game(r, s.p1_stats, Some(s.p2_stats), s.use_adjustment, c)}
    ELSE {[game_winner |-> IF g.result.winner = 1 THEN 2 ELSE 1, rng |-> g.rng] :
            g \in simulate_game(r, s.p2_stats, Some(s.p1_stats), s.use_adjustment, c)}

\* the set given at 6 games with a lead of one
SetWonByOneGame(p1_games, p2_games) ==
    IF p1_games >= 6 /\ p1_games - p2_games >= 1
    THEN 1
    ELSE IF p2_games >= 6 /\ p2_games - p1_games >= 1 THEN 2 ELSE 0

\* lines 309-320
SetWonBy(p1_games, p2_games) ==
    IF p1_games >= 6 /\ p1_games - p2_games >= 2
    THEN 1
    ELSE IF p2_games >= 6 /\ p2_games - p1_games >= 2 THEN 2 ELSE 0

\* every tiebreak played to 7
TiebreakPointsAlways7(final_set_tb) == 7

\* line 330
TiebreakPoints(final_set_tb) == IF final_set_tb = "super" THEN 10 ELSE 7

\* lines 330-343: the tiebreak and the return that follows it
SetTiebreak(s, p1_games, p2_games, r, c) ==
    {LET p1 == IF t.result.winner = 1 THEN p1_games + 1 ELSE p1_games
         p2 == IF t.result.winner = 1 THEN p2_games ELSE p2_games + 1
     IN [st |-> [s EXCEPT !.p1_games = p1, !.p2_games = p2,
                          !.tb_points = Some(TiebreakPoints(s.final_set_tb)),
                          !.tb_result = Some(t.result),
                          !.result = Some(SetResult(t.result.winner, p1, p2, TRUE,
                                                    Some(t.result.score)))],
         rng |-> t.rng] :
        t \in simulate_tiebreak(r, s.p1_stats, s.p2_stats,
                                TiebreakPoints(s.final_set_tb), s.use_adjustment, c)}

\* the same player serving the next game
SetGoesOnSameServer(s, p1_games, p2_games, r) ==
    {[st |-> [s EXCEPT !.p1_games = p1_games, !.p2_games = p2_games],
      rng |-> r]}

\* lines 327 and 346: the set goes on, the other player serving the next game
SetGoesOn(s, p1_games, p2_games, r) ==
    {[st |-> [s EXCEPT !.p1_games = p1_games, !.p2_games = p2_games,
                       !.current_server = Other(s.current_server)],
      rng |-> r]}

\* the turn whose `continue` of line 328 leaves the server as it is
SetAfterGameTieKeepsServer(s, g, c) ==
    LET p1_games == IF g.game_winner = 1 THEN s.p1_games + 1 ELSE s.p1_games
        p2_games == IF g.game_winner = 1 THEN s.p2_games ELSE s.p2_games + 1
        won == SetWonBy(p1_games, p2_games)
    IN IF won # 0
       THEN {[st |-> [s EXCEPT !.p1_games = p1_games, !.p2_games = p2_games,
                               !.result = Some(SetResult(won, p1_games, p2_games,
                                                         FALSE, None))],
              rng |-> g.rng]}
       ELSE IF p1_games = s.tiebreak_at /\ p2_games = s.tiebreak_at
            THEN IF s.final_set_tb = "none"
                 THEN {[st |-> [s EXCEPT !.p1_games = p1_games, !.p2_games = p2_games],
                        rng |-> g.rng]}
                 ELSE SetTiebreak(s, p1_games, p2_games, g.rng, c)
            ELSE SetGoesOn(s, p1_games, p2_games, g.rng)

\* lines 302-346: the rest of one turn of the loop, after the game g
SetAfterGame(s, g, c) ==
    LET p1_games == IF g.game_winner = 1 THEN s.p1_games + 1 ELSE s.p1_games
        p2_games == IF g.game_winner = 1 THEN s.p2_games ELSE s.p2_games + 1
        won == SetWonBy(p1_games, p2_games)
    IN IF won # 0
       THEN {[st |-> [s EXCEPT !.p1_games = p1_games, !.p2_games = p2_games,
                               !.result = Some(SetResult(won, p1_games, p2_games,
                                                         FALSE, None))],
              rng |-> g.rng]}
       ELSE IF p1_games = s.tiebreak_at /\ p2_games = s.tiebreak_at
            THEN IF s.final_set_tb = "none"
                 THEN SetGoesOn(s, p1_games, p2_games, g.rng)
                 ELSE SetTiebreak(s, p1_games, p2_games, g.rng, c)
            ELSE SetGoesOn(s, p1_games, p2_games, g.rng)

\* one turn of the loop of lines 293-346
SetTurn(s, r, c) ==
    IF s.result # None \/ s.p1_games + s.p2_games >= MaxSetGames
    THEN {}
    ELSE UNION {SetAfterGame(s, g, c) : g \in SetGames(s, r, c)}

SetStep ==
    /\ pc = "set"
    /\ \E x \in SetTurn(st, rng, cfg) :
          /\ st' = x.st
          /\ rng' = x.rng
          /\ pc' = IF x.st.result = None THEN "set" ELSE "set_ret"
    /\ UNCHANGED <<cfg, np_rng, pt, gm, tb, mt, es, hs>>

Policies == {"normal", "super", "none"}

TiebreakAts == {5, 6, 7}

InitSet ==
    /\ cfg = Config
    /\ rng \in PreStates
    /\ np_rng = None
    /\ pc = "set"
    /\ \E m \in Matchups, f \in {1, 2}, n \in TiebreakAts, p \in Policies, a \in OptBool :
          st = SetCall(m[1], m[2], f, n, p, a)
    /\ pt = None /\ gm = None /\ tb = None /\ mt = None /\ es = None /\ hs = None

NextSet == SetStep

SpecSet == InitSet /\ [][NextSet]_vars

---------------------------------------------------------------------------
(* simulate_match, lines 353-408 *)

\* the calls the harness makes (lines 504-565): p1_stats, p2_stats, use_adjustment
HarnessCalls ==
    {<<player1, player2, Some(TRUE)>>, <<big_server, elite_returner, Some(TRUE)>>,
     <<player1, player2, Some(FALSE)>>}

BestOfs == {3, 5}

\* line 401
RECURSIVE ScoreString(_)
ScoreString(set_scores) ==
    IF set_scores = <<>>
    THEN ""
    ELSE LET s == Head(set_scores)
             one == ToString(s[1]) \o "-" \o ToString(s[2])
         IN IF Len(set_scores) = 1 THEN one ELSE one \o " " \o ScoreString(Tail(set_scores))

MatchResult(winner, p1_sets, p2_sets, set_scores) ==
    [winner |-> winner, score |-> <<p1_sets, p2_sets>>, set_scores |-> set_scores,
     score_string |-> ScoreString(set_scores)]

\* the division rounded down
SetsToWinFloor(best_of) == best_of \div 2

\* line 365
SetsToWin(best_of) == (best_of + 1) \div 2

\* the call simulate_match(p1_stats, p2_stats, best_of, final_set_tb, use_adjustment),
\* lines 365-369; first_server and current_server are 0 and is_final_set FALSE
\* until they are assigned
MatchCall(p1_stats, p2_stats, best_of, final_set_tb, use_adjustment) ==
    [p1_stats |-> p1_stats, p2_stats |-> p2_stats, best_of |-> best_of,
     final_set_tb |-> final_set_tb, use_adjustment |-> use_adjustment,
     sets_to_win |-> SetsToWin(best_of), p1_sets |-> 0, p2_sets |-> 0,
     set_scores |-> <<>>, first_server |-> 0, current_server |-> 0,
     is_final_set |-> FALSE, result |-> None]

\* lines 372-373
MatchServe ==
    /\ pc = "match"
    /\ \E first_server \in Choices(rng) :
          mt' = [mt EXCEPT !.first_server = first_server,
                           !.current_server = first_server]
    /\ rng' = Advance(rng, 1)
    /\ pc' = "match_loop"
    /\ UNCHANGED <<cfg, np_rng, pt, gm, tb, st, es, hs>>

\* line 375
MatchGoesOn(m) == m.p1_sets < m.sets_to_win /\ m.p2_sets < m.sets_to_win

\* either player one set away
IsFinalSetEither(m) == m.p1_sets = m.sets_to_win - 1 \/ m.p2_sets = m.sets_to_win - 1

\* line 376
IsFinalSet(m) == m.p1_sets = m.sets_to_win - 1 /\ m.p2_sets = m.sets_to_win - 1

\* line 382
SetPolicy(m, is_final_set) == IF is_final_set THEN m.final_set_tb ELSE "normal"

\* lines 375-384, and lines 398-408 when the loop is over
MatchLoop ==
    /\ pc = "match_loop"
    /\ IF MatchGoesOn(mt)
       THEN LET is_final_set == IsFinalSet(mt)
            IN /\ mt' = [mt EXCEPT !.is_final_set = is_final_set]
               /\ st' = SetCall(mt.p1_stats, mt.p2_stats, mt.current_server, 6,
                                SetPolicy(mt, is_final_set), mt.use_adjustment)
               /\ pc' = "set"
       ELSE LET winner == IF mt.p1_sets > mt.p2_sets THEN 1 ELSE 2
            IN /\ mt' = [mt EXCEPT !.result =
                            Some(MatchResult(winner, mt.p1_sets, mt.p2_sets, mt.set_scores))]
               /\ st' = st
               /\ pc' = "match_ret"
    /\ UNCHANGED <<cfg, rng, np_rng, pt, gm, tb, es, hs>>

\* the serve changing hands after every set
NextSetServerAlways(current_server, set_result) == Other(current_server)

\* lines 394-396
NextSetServer(current_server, set_result) ==
    LET total_games == set_result.score[1] + set_result.score[2]
    IN IF total_games % 2 = 1 THEN Other(current_server) ELSE current_server

\* the set's score put at the head of set_scores
MatchAfterSetPrepends ==
    /\ pc = "set_ret"
    /\ mt # None
    /\ LET set_result == Val(st.result)
       IN mt' = [mt EXCEPT !.set_scores = <<set_result.score>> \o mt.set_scores,
                           !.p1_sets = IF set_result.winner = 1 THEN @ + 1 ELSE @,
                           !.p2_sets = IF set_result.winner = 1 THEN @ ELSE @ + 1,
                           !.current_server = NextSetServer(@, set_result)]
    /\ st' = None
    /\ pc' = "match_loop"
    /\ UNCHANGED <<cfg, rng, np_rng, pt, gm, tb, es, hs>>

\* lines 386-396, simulate_set having returned to simulate_match
MatchAfterSet ==
    /\ pc = "set_ret"
    /\ mt # None
    /\ LET set_result == Val(st.result)
       IN mt' = [mt EXCEPT !.set_scores = Append(mt.set_scores, set_result.score),
                           !.p1_sets = IF set_result.winner = 1 THEN @ + 1 ELSE @,
                           !.p2_sets = IF set_result.winner = 1 THEN @ ELSE @ + 1,
                           !.current_server = NextSetServer(@, set_result)]
    /\ st' = None
    /\ pc' = "match_loop"
    /\ UNCHANGED <<cfg, rng, np_rng, pt, gm, tb, es, hs>>

\* generator states simulate_match may find
MatchPreStates == {None} \cup {Seeded(s) : s \in 0..MaxMatchSeed}

\* A generator that was never seeded is followed through best-of-3 matches only:
\* with arbitrary draws, a best-of-5 match has too many courses to follow.
InitMatch ==
    /\ cfg = Config
    /\ np_rng = None
    /\ pc = "match"
    /\ \E h \in HarnessCalls, b \in BestOfs, p \in Policies :
          /\ mt = MatchCall(h[1], h[2], b, p, h[3])
          /\ rng \in IF b = 3 THEN MatchPreStates ELSE MatchPreStates \ {None}
    /\ pt = None /\ gm = None /\ tb = None /\ st = None /\ es = None /\ hs = None

NextMatch == MatchServe \/ MatchLoop \/ SetStep \/ MatchAfterSet

SpecMatch == InitMatch /\ [][NextMatch]_vars

---------------------------------------------------------------------------
(* estimate_win_probability, lines 415-462 *)

\* The floats of the result are written in units of 1 / ProbScale.
ProbScale == 10000

\* stats.norm.ppf(0.975) = 1.959964 (line 445) and its square, in those units
ZValue == 19600

ZSquared == 38415

RECURSIVE SqrtBetween(_, _, _)
SqrtBetween(n, lo, hi) ==
    IF lo >= hi
    THEN lo
    ELSE LET mid == (lo + hi + 1) \div 2
         IN IF mid * mid <= n THEN SqrtBetween(n, mid, hi) ELSE SqrtBetween(n, lo, mid - 1)

\* the integer part of the square root, n < 2^30
ISqrt(n) == SqrtBetween(n, 0, 32767)

\* centre - spread and centre + spread, not divided by the denominator
WilsonIntervalUndivided(p, n) ==
    LET centre == p + ZSquared \div (2 * n)
        inner == ((p * (ProbScale - p)) \div ProbScale + ZSquared \div (4 * n)) \div n
        spread == (ZValue * ISqrt(inner * ProbScale)) \div ProbScale
    IN [ci_lower |-> centre - spread, ci_upper |-> centre + spread]

\* lines 446-454
WilsonInterval(p, n) ==
    LET denominator == ProbScale + ZSquared \div n
        centre == p + ZSquared \div (2 * n)
        inner == ((p * (ProbScale - p)) \div ProbScale + ZSquared \div (4 * n)) \div n
        spread == (ZValue * ISqrt(inner * ProbScale)) \div ProbScale
    IN [ci_lower |-> ((centre - spread) * ProbScale) \div denominator,
        ci_upper |-> ((centre + spread) * ProbScale) \div denominator]

\* lines 440-462; the division of line 440 raises ZeroDivisionError when n_sims = 0
EstimationResult(p1_wins, n_sims) ==
    IF n_sims = 0
    THEN [error |-> "ZeroDivisionError"]
    ELSE LET p1_win_prob == (p1_wins * ProbScale) \div n_sims
             ci == WilsonInterval(p1_win_prob, n_sims)
         IN [p1_win_prob |-> p1_win_prob, p2_win_prob |-> ProbScale - p1_win_prob,
             ci_lower |-> ci.ci_lower, ci_upper |-> ci.ci_upper, n_sims |-> n_sims]

\* the call estimate_win_probability(p1_stats, p2_stats, n_sims, best_of,
\* final_set_tb, use_adjustment, seed); p1_wins is 0 until line 434 assigns it,
\* i counts the turns of the loop of line 435, match_result is the local `result`
\* of line 436
EstimateCall(p1_stats, p2_stats, n_sims, best_of, final_set_tb, use_adjustment, seed) ==
    [p1_stats |-> p1_stats, p2_stats |-> p2_stats, n_sims |-> n_sims,
     best_of |-> best_of, final_set_tb |-> final_set_tb,
     use_adjustment |-> use_adjustment, seed |-> seed,
     p1_wins |-> 0, i |-> 0, match_result |-> None, result |-> None]

\* the seed ignored
SeedRandomNever(r, seed) == r

\* lines 430-432: the generator after random.seed(seed)
SeedRandom(r, seed) == IF seed # None THEN Seeded(Val(seed)) ELSE r

\* lines 430-434
EstimateSeed ==
    /\ pc = "estimate"
    /\ rng' = SeedRandom(rng, es.seed)
    /\ np_rng' = SeedRandom(np_rng, es.seed)
    /\ es' = [es EXCEPT !.p1_wins = 0]
    /\ pc' = "estimate_loop"
    /\ UNCHANGED <<cfg, pt, gm, tb, st, mt, hs>>

\* lines 435-436: one more match, or the loop is over
EstimateLoop ==
    /\ pc = "estimate_loop"
    /\ IF es.i < es.n_sims
       THEN /\ mt' = MatchCall(es.p1_stats, es.p2_stats, es.best_of, es.final_set_tb,
                               es.use_adjustment)
            /\ pc' = "match"
       ELSE /\ mt' = mt
            /\ pc' = "estimate_end"
    /\ UNCHANGED <<cfg, rng, np_rng, pt, gm, tb, st, es, hs>>

\* lines 437-438, simulate_match having returned to estimate_win_probability
EstimateAfterMatch ==
    /\ pc = "match_ret"
    /\ es # None
    /\ es' = [es EXCEPT !.match_result = mt.result,
                        !.p1_wins = IF Val(mt.result).winner = 1 THEN @ + 1 ELSE @,
                        !.i = @ + 1]
    /\ mt' = None
    /\ pc' = "estimate_loop"
    /\ UNCHANGED <<cfg, rng, np_rng, pt, gm, tb, st, hs>>

\* lines 440-462
EstimateEnd ==
    /\ pc = "estimate_end"
    /\ es' = [es EXCEPT !.result = Some(EstimationResult(es.p1_wins, es.n_sims))]
    /\ pc' = IF es.n_sims = 0 THEN "estimate_raise" ELSE "estimate_ret"
    /\ UNCHANGED <<cfg, rng, np_rng, pt, gm, tb, st, mt, hs>>

\* The harness (lines 504-575) calls the estimator again and again with a fixed
\* seed, and uses the generator itself in between.  Here it makes the same call
\* a second time, having left the generator as it was or in some other state,
\* and remembers the first call's result and the generator each call found.
Seeds == {None, Some(42), Some(7)}

HarnessCallAgain ==
    /\ pc \in {"estimate_ret", "estimate_raise"}
    /\ Len(hs.found) = 1
    /\ \E r \in {rng} \cup (PreStates \ {None}) :
          /\ rng' = r
          /\ hs' = [results |-> Append(hs.results, Val(es.result)),
                    found |-> Append(hs.found, r)]
    /\ es' = [es EXCEPT !.p1_wins = 0, !.i = 0, !.match_result = None, !.result = None]
    /\ pc' = "estimate"
    /\ UNCHANGED <<cfg, np_rng, pt, gm, tb, st, mt>>

InitEstimate ==
    /\ cfg = Config
    /\ rng \in PreStates \ {None}
    /\ np_rng = None
    /\ pc = "estimate"
    /\ \E h \in HarnessCalls, n \in 0..MaxSims, b \in BestOfs, p \in Policies, s \in Seeds :
          es = EstimateCall(h[1], h[2], n, b, p, h[3], s)
    /\ hs = [results |-> <<>>, found |-> <<rng>>]
    /\ pt = None /\ gm = None /\ tb = None /\ st = None /\ mt = None

NextEstimate ==
    \/ EstimateSeed \/ EstimateLoop \/ MatchServe \/ MatchLoop \/ SetStep
    \/ MatchAfterSet \/ EstimateAfterMatch \/ EstimateEnd \/ HarnessCallAgain

SpecEstimate == InitEstimate /\ [][NextEstimate]_vars

---------------------------------------------------------------------------
(* Every operation: simulate_point, simulate_game, simulate_tiebreak and   *)
(* simulate_set called on their own, simulate_match as the estimator calls *)
(* it (on its own it is followed in SpecMatch).                            *)

InitAll == InitPoint \/ InitGame \/ InitTiebreak \/ InitSet \/ InitEstimate

NextAll == PointStep \/ GameStep \/ TiebreakStep \/ NextEstimate

SpecAll == InitAll /\ [][NextAll]_vars

---------------------------------------------------------------------------
(* The three loops without a bound on their turns.                         *)
(*                                                                         *)
(* None of the loops of simulate_game (line 199), simulate_tiebreak (line  *)
(* 235) and simulate_set (line 293) has a cap: each is `while True` and is *)
(* left only by a return.  Their counters grow without bound, but the      *)
(* loops read them only through comparisons that two counts raised by the  *)
(* same amount answer alike once both are large enough:                    *)
(*   - lines 208-211 read server_points and returner_points through        *)
(*     `>= 4` and their difference: from 3 points each on, the course of   *)
(*     the game from (n + k, m + k) is that from (n, m);                   *)
(*   - lines 240-264 read the points through `>= to_points`, their         *)
(*     difference, and point_num through ((point_num - 1) // 2) % 2, of    *)
(*     period 4: from to_points - 1 points each on, two points less for    *)
(*     each player and four less for point_num change nothing;             *)
(*   - lines 309-324 read the games through `>= 6`, their difference and   *)
(*     `== tiebreak_at`: one game less for each player changes nothing     *)
(*     once both have more than 6 and more than tiebreak_at games.         *)
(* Here the counts are kept folded that way, which makes the states of a   *)
(* loop finitely many and lets it run for ever; the scores of a result are *)
(* then the true ones less the same amount for both sides.                 *)

GameFold(g) ==
    LET low == Min(g.server_points, g.returner_points)
    IN IF low > 3
       THEN [g EXCEPT !.server_points = @ - (low - 3),
                      !.returner_points = @ - (low - 3)]
       ELSE g

\* one turn of the loop of lines 199-211
GameStepFolded ==
    /\ pc = "game"
    /\ \E x \in GameTurn(gm, PointResults(rng, gm.server_stats, gm.returner_stats,
                                          gm.use_adjustment, cfg)) :
          /\ gm' = GameFold(x.gm)
          /\ rng' = x.rng
          /\ pc' = IF x.gm.result = None THEN "game" ELSE "game_ret"
    /\ UNCHANGED <<cfg, np_rng, pt, tb, st, mt, es, hs>>

TiebreakFold(t) ==
    IF Min(t.p1_points, t.p2_points) > t.to_points
    THEN [t EXCEPT !.p1_points = @ - 2, !.p2_points = @ - 2, !.point_num = @ - 4]
    ELSE t

\* one turn of the loop of lines 235-264
TiebreakStepFolded ==
    /\ pc = "tiebreak"
    /\ \E x \in TiebreakTurn(tb,
                    PointResults(rng, tb.p1_stats, Some(tb.p2_stats), tb.use_adjustment, cfg),
                    PointResults(rng, tb.p2_stats, Some(tb.p1_stats), tb.use_adjustment, cfg)) :
          /\ tb' = TiebreakFold(x.tb)
          /\ rng' = x.rng
          /\ pc' = IF x.tb.result = None THEN "tiebreak" ELSE "tiebreak_ret"
    /\ UNCHANGED <<cfg, np_rng, pt, gm, st, mt, es, hs>>

SetFold(s) ==
    IF Min(s.p1_games, s.p2_games) > Max(6, s.tiebreak_at)
    THEN [s EXCEPT !.p1_games = @ - 1, !.p2_games = @ - 1]
    ELSE s

\* one turn of the loop of lines 293-346; the game of the turn is a whole call
\* of simulate_game, one that returns
SetStepFolded ==
    /\ pc = "set"
    /\ \E x \in SetTurn(st, rng, cfg) :
          /\ st' = SetFold(x.st)
          /\ rng' = x.rng
          /\ pc' = IF x.st.result = None THEN "set" ELSE "set_ret"
    /\ UNCHANGED <<cfg, np_rng, pt, gm, tb, mt, es, hs>>

\* One of the three loops about to start, called as a match of the harness
\* calls it.  The generator was never seeded: its draws are arbitrary, and which
\* of them come is what the fairness below is about.  (A seeded generator gives
\* one sequence of draws, and the loop one course.)
InitLoops ==
    /\ cfg = Config
    /\ rng = None
    /\ np_rng = None
    /\ pt = None /\ mt = None /\ es = None /\ hs = None
    /\ \E h \in HarnessCalls :
          \/ /\ pc = "game"
             /\ \E server \in {1, 2} :
                   gm = IF server = 1
                        THEN GameCall(h[1], Some(h[2]), h[3])
                        ELSE GameCall(h[2], Some(h[1]), h[3])
             /\ tb = None /\ st = None
          \/ /\ pc = "tiebreak"
             /\ \E n \in TiebreakTargets : tb = TiebreakCall(h[1], h[2], n, h[3])
             /\ gm = None /\ st = None
          \/ /\ pc = "set"
             /\ \E f \in {1, 2}, n \in TiebreakAts, p \in Policies :
                   st = SetCall(h[1], h[2], f, n, p, h[3])
             /\ gm = None /\ tb = None

NextLoops == GameStepFolded \/ TiebreakStepFolded \/ SetStepFolded

\* The program runs on while it can (it is sequential and nothing blocks it),
\* and the point, or the game, that decides a loop is not withheld for ever
\* when it is possible again and again: from a tied score no side is denied
\* two points (two games) in a row for ever.
LoopsFairness ==
    /\ WF_vars(NextLoops)
    /\ SF_vars(GameStepFolded /\ pc' = "game_ret")
    /\ SF_vars(TiebreakStepFolded /\ pc' = "tiebreak_ret")
    /\ SF_vars(SetStepFolded /\ pc' = "set_ret")

SpecLoops == InitLoops /\ [][NextLoops]_vars /\ LoopsFairness

\* the same with no fairness on the outcomes: the program only runs on
LoopsProgress == WF_vars(NextLoops)

SpecLoopsUnfair == InitLoops /\ [][NextLoops]_vars /\ LoopsProgress

---------------------------------------------------------------------------
(* Properties of simulate_game *)

\* C1: simulate_game returns at the first point after which one side has at
\* least 4 points and leads by at least 2: while the loop runs no side has yet
\* 4 points with a lead of 2, and the result it returns with carries the points
\* counted, gives the winner at least 4 points and a lead of at least 2, and
\* names as winner the side with more points (1 the server, 0 the returner).
C1_GameEndsAtFirstDecidingPoint ==
    /\ pc = "game" =>
          /\ gm.result = None
          /\ ~(gm.server_points >= 4 /\ gm.server_points - gm.returner_points >= 2)
          /\ ~(gm.returner_points >= 4 /\ gm.returner_points - gm.server_points >= 2)
    /\ pc = "game_ret" =>
          LET r == Val(gm.result)
              won == IF r.winner = 1 THEN r.score[1] ELSE r.score[2]
              lost == IF r.winner = 1 THEN r.score[2] ELSE r.score[1]
          IN /\ r.winner \in {0, 1}
             /\ r.score = <<gm.server_points, gm.returner_points>>
             /\ won >= 4
             /\ won - lost >= 2
             /\ (r.winner = 1) <=> (r.score[1] > r.score[2])

\* a game the returner wins after deuce, 5 points to 7
C1_Witness ==
    /\ pc = "game_ret"
    /\ Val(gm.result).winner = 0
    /\ Val(gm.result).score = <<5, 7>>

---------------------------------------------------------------------------
(* Properties of simulate_match *)

\* C2: sets_to_win is 2 when best_of = 3 and 3 when best_of = 5; the loop plays a
\* set only while both players have fewer than sets_to_win sets, so it stops as
\* soon as one player reaches sets_to_win; and the MatchResult gives the winner
\* exactly sets_to_win sets and the loser strictly fewer.
C2_MatchEndsAtSetsToWin ==
    pc \in {"match_loop", "set", "set_ret", "match_ret"} =>
       /\ mt.best_of = 3 => mt.sets_to_win = 2
       /\ mt.best_of = 5 => mt.sets_to_win = 3
       /\ pc \in {"set", "set_ret"} =>
             mt.p1_sets < mt.sets_to_win /\ mt.p2_sets < mt.sets_to_win
       /\ pc = "match_ret" =>
             LET r == Val(mt.result)
                 won == IF r.winner = 1 THEN r.score[1] ELSE r.score[2]
                 lost == IF r.winner = 1 THEN r.score[2] ELSE r.score[1]
             IN /\ r.winner \in {1, 2}
                /\ r.score = <<mt.p1_sets, mt.p2_sets>>
                /\ won = mt.sets_to_win
                /\ lost < mt.sets_to_win

\* a best-of-5 match player 2 wins by 3 sets to 2
C2_Witness ==
    /\ pc = "match_ret"
    /\ mt.best_of = 5
    /\ Val(mt.result).winner = 2
    /\ Val(mt.result).score = <<2, 3>>

---------------------------------------------------------------------------
(* Properties of simulate_set *)

\* C3: the SetResult is exactly one of (a) a player has at least 6 games and a
\* lead of at least 2, tiebreak is False and there is no tiebreak score, or (b)
\* both players reached tiebreak_at games and a tiebreak was played: tiebreak is
\* True, the score is tiebreak_at + 1 games to tiebreak_at in favour of the
\* winner, and the tiebreak score embedded is that of a tiebreak the set's winner
\* won (the target reached, with a lead of 2).  Under policy "none" it is (a).
C3_SetEndsByLeadOrTiebreak ==
    pc = "set_ret" =>
       LET r == Val(st.result)
           won == IF r.winner = 1 THEN r.score[1] ELSE r.score[2]
           lost == IF r.winner = 1 THEN r.score[2] ELSE r.score[1]
           byLead == /\ r.tiebreak = FALSE
                     /\ r.tiebreak_score = None
                     /\ won >= 6
                     /\ won - lost >= 2
           byTiebreak ==
               /\ r.tiebreak = TRUE
               /\ r.tiebreak_score # None
               /\ lost = st.tiebreak_at
               /\ won = st.tiebreak_at + 1
               /\ st.final_set_tb # "none"
               /\ LET t == Val(r.tiebreak_score)
                      twon == IF r.winner = 1 THEN t[1] ELSE t[2]
                      tlost == IF r.winner = 1 THEN t[2] ELSE t[1]
                  IN /\ twon >= (IF st.final_set_tb = "super" THEN 10 ELSE 7)
                     /\ twon - tlost >= 2
       IN /\ r.winner \in {1, 2}
          /\ r.score = <<st.p1_games, st.p2_games>>
          /\ byLead \/ byTiebreak
          /\ ~(byLead /\ byTiebreak)

\* a set with tiebreak_at = 7 that player 2 wins 8-7 in a super tiebreak
C3_Witness ==
    /\ pc = "set_ret"
    /\ st.tiebreak_at = 7
    /\ st.final_set_tb = "super"
    /\ Val(st.result).tiebreak = TRUE
    /\ Val(st.result).score = <<7, 8>>

---------------------------------------------------------------------------
(* Properties of simulate_tiebreak *)

\* C4, the result: while the loop runs no player has yet to_points points with a
\* lead of 2, and the TiebreakResult carries the points counted in (player 1,
\* player 2) order and names as winner the player who has at least to_points
\* points and leads by at least 2.
C4_TiebreakResult ==
    /\ pc = "tiebreak" =>
          /\ tb.result = None
          /\ ~(tb.p1_points >= tb.to_points /\ tb.p1_points - tb.p2_points >= 2)
          /\ ~(tb.p2_points >= tb.to_points /\ tb.p2_points - tb.p1_points >= 2)
    /\ pc = "tiebreak_ret" =>
          LET r == Val(tb.result)
              won == IF r.winner = 1 THEN r.score[1] ELSE r.score[2]
              lost == IF r.winner = 1 THEN r.score[2] ELSE r.score[1]
          IN /\ r.winner \in {1, 2}
             /\ r.score = <<tb.p1_points, tb.p2_points>>
             /\ won >= tb.to_points
             /\ won - lost >= 2

\* C4, the points: every point goes to exactly one player, to the player who
\* served it when simulate_point gives it to the server (player 2 when player 2
\* serves, player 1 when player 1 serves) and to the other player otherwise.
C4_PointCredited ==
    (pc = "tiebreak" /\ tb'.point_num = tb.point_num + 1) =>
       LET server == IF Val(tb'.server_is_p1) THEN 1 ELSE 2
           to == IF Val(tb'.point_result).winner = 1 THEN server ELSE 3 - server
       IN /\ tb'.p1_points = tb.p1_points + (IF to = 1 THEN 1 ELSE 0)
          /\ tb'.p2_points = tb.p2_points + (IF to = 2 THEN 1 ELSE 0)

\* C4: the tiebreak ends at the first point after which one player has at least
\* to_points points and leads by at least 2; the winner is that player, the
\* score is in (player 1, player 2) order, and a point the server wins is
\* credited to player 2 when player 2 serves and to player 1 when player 1 serves.
C4_TiebreakEndsAtFirstDecidingPoint == []C4_TiebreakResult /\ [][C4_PointCredited]_vars

\* a tiebreak to 7 that player 2 wins 7-9 on a point player 2 served
C4_Witness ==
    /\ pc = "tiebreak_ret"
    /\ tb.to_points = 7
    /\ Val(tb.result).winner = 2
    /\ Val(tb.result).score = <<7, 9>>
    /\ tb.server_is_p1 = Some(FALSE)
    /\ Val(tb.point_result).winner = 1

\* C5: player 1 serves point 0, player 2 serves points 1 and 2, player 1 points
\* 3 and 4, and so on in turns of two points: the point just played, of index
\* point_num - 1, was served by player 1 exactly when the index is 0 or its turn
\* of two is an odd one.
C5_ServeAlternatesEveryTwoPoints ==
    (pc \in {"tiebreak", "tiebreak_ret"} /\ tb.point_num >= 1) =>
       LET index == tb.point_num - 1
       IN Val(tb.server_is_p1) = (index = 0 \/ ((index - 1) \div 2) % 2 = 1)

---------------------------------------------------------------------------
(* Properties of simulate_point *)

\* C6: an ace comes only with serve "first" and the server as winner, a double
\* fault only with serve "second" and the returner as winner, every other
\* outcome is a rally, and the serve is "first" exactly when the first draw was
\* below first_in_pct.
C6_PointOutcomeMatchesBranch ==
    pc = "point_ret" =>
       LET r == Val(pt.result)
       IN /\ r.point_type = "ace" => (r.serve = "first" /\ r.winner = 1)
          /\ r.point_type = "double_fault" => (r.serve = "second" /\ r.winner = 0)
          /\ r.point_type \in {"ace", "double_fault", "rally"}
          /\ r.serve \in {"first", "second"}
          /\ r.winner \in {0, 1}
          /\ (r.serve = "first") <=> (pt.draws[1] < pt.server_stats.first_in_pct)

\* a double fault
C6_Witness ==
    /\ pc = "point_ret"
    /\ Val(pt.result).point_type = "double_fault"
    /\ pt.draws[1] >= pt.server_stats.first_in_pct

---------------------------------------------------------------------------
(* Properties of simulate_match, the sets *)

\* C7: a set is played with the caller's final_set_tb exactly when, as it
\* starts, both players are one set away from winning; every other set is
\* played with "normal".
C7_OnlyDecidingSetUsesPolicy ==
    pc \in {"set", "set_ret"} =>
       st.final_set_tb =
          (IF mt.p1_sets = mt.sets_to_win - 1 /\ mt.p2_sets = mt.sets_to_win - 1
           THEN mt.final_set_tb
           ELSE "normal")

\* the deciding set of a best-of-5 match, played without a tiebreak, at 7-7
C7_Witness ==
    /\ pc = "set"
    /\ mt.best_of = 5
    /\ mt.p1_sets = 2 /\ mt.p2_sets = 2
    /\ st.final_set_tb = "none"
    /\ st.p1_games = 7 /\ st.p2_games = 7

\* C8, the step: when a set is over, the server of the next set is the other
\* player if the games of the set's score add up to an odd number, and the
\* same player otherwise.
C8_ServerAfterSet ==
    (pc = "set_ret" /\ pc' = "match_loop") =>
       LET score == Val(st.result).score
       IN mt'.current_server =
             (IF (score[1] + score[2]) % 2 = 1
              THEN 3 - mt.current_server
              ELSE mt.current_server)

\* C8, the set: a set is played with the match's current server as its first
\* server.
C8_SetStartsWithCurrentServer ==
    pc \in {"set", "set_ret"} => st.first_server = mt.current_server

\* C8: after each completed set the first server of the next set is the other
\* player if and only if the total number of games in the completed set's score
\* (the game awarded for a tiebreak included) is odd.
C8_NextFirstServerByParity ==
    [][C8_ServerAfterSet]_vars /\ []C8_SetStartsWithCurrentServer

\* a third set under way after a 7-6 set (the serve changed hands) and a 6-4
\* set (it did not)
C8_Witness ==
    /\ pc = "set"
    /\ mt.set_scores = <<<<7, 6>>, <<4, 6>>>>
    /\ st.first_server = 3 - mt.first_server

---------------------------------------------------------------------------
(* Properties of estimate_win_probability *)

\* C9: a call with a seed returns what the harness's first call with the same
\* seed and the same arguments returned, whatever state each call found the
\* generator in.
C9_SameSeedSameResult ==
    (pc \in {"estimate_ret", "estimate_raise"} /\ Len(hs.results) = 1 /\ es.seed # None) =>
       Val(es.result) = hs.results[1]

\* two calls of two matches each with seed 42 that found the generator in
\* different states and both returned a win probability of one half
C9_Witness ==
    /\ pc = "estimate_ret"
    /\ Len(hs.results) = 1
    /\ es.seed = Some(42)
    /\ es.n_sims = 2
    /\ hs.found[1] # hs.found[2]
    /\ Val(es.result).p1_win_prob = 5000

\* C10: a call with n_sims = 0 is rejected before the loop: when the error
\* reaches the caller the generator is in the state the call found it in,
\* neither used nor seeded again.
C10_ZeroTrialsLeaveGenerator ==
    pc = "estimate_raise" => rng = hs.found[Len(hs.found)]

---------------------------------------------------------------------------
(* Properties of simulate_point, the statistics it is given *)

\* C11: simulate_point returns a point only for valid statistics: every rate of
\* the server in [0, 1], ace_pct at most first_in_pct, df_pct at most
\* 1 - first_in_pct, and first_in_pct neither 0 nor 1; given anything else it
\* fails before it returns a point.
C11_InvalidStatsRejected ==
    pc = "point_ret" =>
       LET s == pt.server_stats
       IN /\ \A rate \in {s.first_in_pct, s.first_won_pct, s.second_won_pct,
                           s.ace_pct, s.df_pct} : 0 <= rate /\ rate <= Scale
          /\ s.ace_pct <= s.first_in_pct
          /\ s.df_pct <= Scale - s.first_in_pct
          /\ s.first_in_pct # 0
          /\ s.first_in_pct # Scale

\* C12: simulate_point always returns a point, and in a rally the win
\* probability is the server's own first_won_pct (first serve) or second_won_pct
\* (second serve) whenever the adjustment is off, returner_stats is absent, or
\* the return rate for the serve in play is absent; it is the adjusted one
\* whenever the adjustment is on and that one rate is known, whatever the other
\* rate is; and the adjustment is on when use_adjustment is True, or is unset
\* and USE_OPPONENT_ADJUSTMENT is True.
C12_MissingDataFallsBack ==
    pc = "point_ret" =>
       /\ pt.result # None
       /\ Val(pt.result).point_type = "rally" =>
             LET first == Val(pt.result).serve = "first"
                 s == pt.server_stats
                 on == IF pt.use_adjustment = None
                       THEN cfg.USE_OPPONENT_ADJUSTMENT
                       ELSE Val(pt.use_adjustment)
                 rate == IF pt.returner_stats = None
                         THEN None
                         ELSE IF first
                              THEN Val(pt.returner_stats).return_vs_first
                              ELSE Val(pt.returner_stats).return_vs_second
                 own == IF first THEN s.first_won_pct ELSE s.second_won_pct
                 avg == IF first THEN cfg.AVG_RETURN_VS_FIRST ELSE cfg.AVG_RETURN_VS_SECOND
                 lo == IF first THEN 30 ELSE 20
                 hi == IF first THEN 95 ELSE 85
             IN IF on /\ rate # None
                THEN LET sum == own + (avg - Val(rate))
                     IN pt.win_prob = Some(IF sum < lo THEN lo ELSE IF sum > hi THEN hi ELSE sum)
                ELSE pt.win_prob = Some(own)

\* a second-serve rally against a returner whose return_vs_first is absent and
\* whose return_vs_second is known, use_adjustment left unset: the probability
\* is not the server's own
C12_Witness ==
    /\ pc = "point_ret"
    /\ Val(pt.result).point_type = "rally"
    /\ Val(pt.result).serve = "second"
    /\ pt.use_adjustment = None
    /\ pt.returner_stats # None
    /\ Val(pt.returner_stats).return_vs_first = None
    /\ Val(pt.returner_stats).return_vs_second # None
    /\ pt.win_prob # Some(pt.server_stats.second_won_pct)

\* C13: when the adjustment applies (it is on, returner_stats is given and the
\* return rate for the serve in play is known) the win probability of the rally
\* is first_won_pct + (AVG_RETURN_VS_FIRST - return_vs_first) brought into
\* [0.30, 0.95] on a first serve and second_won_pct + (AVG_RETURN_VS_SECOND -
\* return_vs_second) brought into [0.20, 0.85] on a second serve; it lies within
\* those bounds; and the server wins the point exactly when the rally's draw is
\* strictly below it.
C13_AdjustedProbabilityClamped ==
    (pc = "point_ret" /\ Val(pt.result).point_type = "rally") =>
       LET first == Val(pt.result).serve = "first"
           s == pt.server_stats
           on == IF pt.use_adjustment = None
                 THEN cfg.USE_OPPONENT_ADJUSTMENT
                 ELSE Val(pt.use_adjustment)
           applies ==
               /\ on
               /\ pt.returner_stats # None
               /\ (IF first
                   THEN Val(pt.returner_stats).return_vs_first
                   ELSE Val(pt.returner_stats).return_vs_second) # None
       IN /\ applies =>
                LET sum == IF first
                           THEN s.first_won_pct
                                   + (35 - Val(Val(pt.returner_stats).return_vs_first))
                           ELSE s.second_won_pct
                                   + (50 - Val(Val(pt.returner_stats).return_vs_second))
                    lo == IF first THEN 30 ELSE 20
                    hi == IF first THEN 95 ELSE 85
                    p == Val(pt.win_prob)
                IN /\ lo <= p /\ p <= hi
                   /\ sum < lo => p = lo
                   /\ sum > hi => p = hi
                   /\ (lo <= sum /\ sum <= hi) => p = sum
          /\ (Val(pt.result).winner = 1) <=> (pt.draws[3] < Val(pt.win_prob))
          /\ Val(pt.result).winner \in {0, 1}

\* a first-serve rally whose sum is above 0.95: the draw 0.99 gives the point to
\* the returner
C13_Witness ==
    /\ pc = "point_ret"
    /\ Val(pt.result).point_type = "rally"
    /\ Val(pt.result).serve = "first"
    /\ pt.use_adjustment # Some(FALSE)
    /\ pt.returner_stats # None
    /\ Val(pt.returner_stats).return_vs_first # None
    /\ pt.server_stats.first_won_pct
          + (35 - Val(Val(pt.returner_stats).return_vs_first)) > 95
    /\ pt.win_prob = Some(95)
    /\ pt.draws[3] = 99
    /\ Val(pt.result).winner = 0

---------------------------------------------------------------------------
(* Properties of estimate_win_probability, one trial *)

---------------------------------------------------------------------------
(* Properties of simulate_set, the set at tiebreak_at games all *)

\* C15, the set: with policy "none" and tiebreak_at = 6 no tiebreak is played;
\* while the loop runs no player has 6 games and a lead of 2, whatever the games
\* (6-6, 7-6, 8-7, ...), and the game to come is served by first_server when an
\* even number of games has been played and by the other player otherwise; the
\* result has tiebreak False, no tiebreak score, and gives the winner at least 6
\* games and a lead of at least 2, of exactly 2 when the winner has more than 6
\* games.
C15_AdvantageSet ==
    (pc \in {"set", "set_ret"} /\ st.final_set_tb = "none" /\ st.tiebreak_at = 6) =>
       /\ st.tb_points = None /\ st.tb_result = None
       /\ pc = "set" =>
             /\ st.result = None
             /\ ~(st.p1_games >= 6 /\ st.p1_games - st.p2_games >= 2)
             /\ ~(st.p2_games >= 6 /\ st.p2_games - st.p1_games >= 2)
             /\ st.current_server =
                   (IF (st.p1_games + st.p2_games) % 2 = 0
                    THEN st.first_server
                    ELSE 3 - st.first_server)
       /\ pc = "set_ret" =>
             LET r == Val(st.result)
                 won == IF r.winner = 1 THEN r.score[1] ELSE r.score[2]
                 lost == IF r.winner = 1 THEN r.score[2] ELSE r.score[1]
             IN /\ r.tiebreak = FALSE
                /\ r.tiebreak_score = None
                /\ won >= 6
                /\ won - lost >= 2
                /\ won > 6 => won - lost = 2

\* C15, the games: with policy "none" and tiebreak_at = 6 every game that does
\* not end the set adds one game to one player and changes the server exactly
\* once, the game that makes it 6-6 included.
C15_ServerChangesOnce ==
    (pc = "set" /\ pc' = "set" /\ st.final_set_tb = "none" /\ st.tiebreak_at = 6) =>
       /\ st'.p1_games + st'.p2_games = st.p1_games + st.p2_games + 1
       /\ st'.current_server = 3 - st.current_server

\* C15: in simulate_set with policy "none" and tiebreak_at = 6 no tiebreak is
\* ever played and the result has tiebreak False; after 6-6 the set goes on, the
\* server changing exactly once from each game to the next; a lead of one game
\* (7-6, 8-7) never ends the set; the set ends only when a player has at least
\* 6 games and a lead of at least 2 (6-0 to 6-4), which past 6 games is a lead
\* of exactly 2 (7-5, 8-6).
C15_NoTiebreakUnderNone == []C15_AdvantageSet /\ [][C15_ServerChangesOnce]_vars

\* C15 as first stated: with policy "none" and tiebreak_at = 6 the set ends only
\* when a player has at least 6 games and a lead of exactly 2.
C15_EndsByLeadOfExactlyTwo ==
    (pc = "set_ret" /\ st.final_set_tb = "none" /\ st.tiebreak_at = 6) =>
       LET r == Val(st.result)
           won == IF r.winner = 1 THEN r.score[1] ELSE r.score[2]
           lost == IF r.winner = 1 THEN r.score[2] ELSE r.score[1]
       IN won >= 6 /\ won - lost = 2

\* an advantage set player 2 wins 10-8, having passed 6-6, 7-7 and 8-8
C15_Witness ==
    /\ pc = "set_ret"
    /\ st.final_set_tb = "none"
    /\ st.tiebreak_at = 6
    /\ Val(st.result).score = <<8, 10>>

\* C16: when simulate_set plays a tiebreak it is played to 10 points under
\* "super" and to 7 otherwise; the set's winner is the tiebreak's winner; the
\* score is tiebreak_at + 1 games to tiebreak_at in that player's favour;
\* tiebreak is True and tiebreak_score is the score the tiebreak returned, a
\* score of a tiebreak to that target.  A tiebreak is played only under
\* "normal" or "super".
C16_TiebreakDecidesSet ==
    (pc = "set_ret" /\ st.tb_result # None) =>
       LET r == Val(st.result)
           t == Val(st.tb_result)
           target == IF st.final_set_tb = "super" THEN 10 ELSE 7
           twon == IF t.winner = 1 THEN t.score[1] ELSE t.score[2]
           tlost == IF t.winner = 1 THEN t.score[2] ELSE t.score[1]
       IN /\ st.final_set_tb \in {"normal", "super"}
          /\ st.tb_points = Some(target)
          /\ r.winner = t.winner
          /\ r.score = (IF t.winner = 1
                        THEN <<st.tiebreak_at + 1, st.tiebreak_at>>
                        ELSE <<st.tiebreak_at, st.tiebreak_at + 1>>)
          /\ r.tiebreak = TRUE
          /\ r.tiebreak_score = Some(t.score)
          /\ twon >= target
          /\ twon - tlost >= 2
          /\ (twon > target) => (twon - tlost = 2)

\* a set at 6-6 that player 1 wins 7-6 in a super tiebreak, 10 points to 8
C16_Witness ==
    /\ pc = "set_ret"
    /\ st.tiebreak_at = 6
    /\ st.final_set_tb = "super"
    /\ st.tb_result # None
    /\ Val(st.tb_result).winner = 1
    /\ Val(st.tb_result).score = <<10, 8>>
    /\ Val(st.result).score = <<7, 6>>
    /\ Val(st.result).tiebreak_score = Some(<<10, 8>>)

---------------------------------------------------------------------------
(* Properties of the loops, termination *)

\* C17, the loop can go round: at deuce, with a generator that was never
\* seeded, two more points can bring the game back to deuce; nothing counts the
\* turns.
C17_DeuceCanRecur ==
    (pc = "game" /\ rng = None /\ gm.server_points = 3 /\ gm.returner_points = 3
        /\ gm.server_stats \in Players /\ gm.returner_stats # None) =>
       \E x \in GameTurn(gm, PointResults(rng, gm.server_stats, gm.returner_stats,
                                          gm.use_adjustment, cfg)) :
          \E y \in GameTurn(GameFold(x.gm),
                            PointResults(x.rng, gm.server_stats, gm.returner_stats,
                                         gm.use_adjustment, cfg)) :
             /\ y.gm.result = None
             /\ y.gm.server_points = y.gm.returner_points

\* C17: simulate_game has no cap on its turns and, when the deciding point is
\* not withheld for ever, returns: every game comes to a result (one side with
\* at least 4 points and a lead of 2), and so do the win-by-2 loops of
\* simulate_tiebreak and simulate_set; from deuce the game can come back to
\* deuce, so that without that fairness it may go on for ever.
C17_LoopsReturn ==
    /\ <>(pc \in {"game_ret", "tiebreak_ret", "set_ret"})
    /\ []C17_DeuceCanRecur

\* a game the server wins from deuce
C17_Witness ==
    /\ pc = "game_ret"
    /\ gm.server_points = 5 /\ gm.returner_points = 3
    /\ Val(gm.result).winner = 1

---------------------------------------------------------------------------
(* Properties of the random source *)

\* C18, the point: simulate_point takes its draws from the generator one after
\* the other, as many as it uses: 2 when the point is an ace or a double fault
\* and 3 otherwise.  The first decides whether the first serve is in, the
\* second whether the point is an ace (first serve in) or a double fault (first
\* serve missed), and the third, taken only for a rally, who wins it.
C18_PointDraws ==
    (pc = "point" /\ pc' = "point_ret") =>
       LET d == pt'.draws
           r == Val(pt'.result)
           s == pt.server_stats
       IN /\ Len(d) = (IF r.point_type \in {"ace", "double_fault"} THEN 2 ELSE 3)
          /\ rng' = Advance(rng, Len(d))
          /\ rng # None => \A i \in 1..Len(d) : d[i] = RngOut(Val(Advance(rng, i)))
          /\ (r.serve = "first") <=> (d[1] < s.first_in_pct)
          /\ r.serve = "first" =>
                ((r.point_type = "ace") <=> (d[2] * s.first_in_pct < s.ace_pct * Scale))
          /\ r.serve = "second" =>
                ((r.point_type = "double_fault")
                    <=> (d[2] * (Scale - s.first_in_pct) < s.df_pct * Scale))
          /\ r.point_type = "rally" =>
                ((r.winner = 1) <=> (d[3] < Val(pt'.win_prob)))

\* C18, the match: the first thing simulate_match does with the generator is
\* the one draw that chooses the first server; no set, game or point has been
\* played when it is taken.
C18_MatchDraw ==
    pc = "match" =>
       /\ pc' = "match_loop"
       /\ rng' = Advance(rng, 1)
       /\ rng # None => mt'.first_server = 1 + (RngOut(Val(Advance(rng, 1))) % 2)
       /\ mt'.first_server \in {1, 2}
       /\ mt.set_scores = <<>> /\ st = None /\ gm = None /\ tb = None /\ pt = None

\* C18: the generator is used in a strict order, one draw per decision: a point
\* takes the first-serve draw, then the ace or double-fault draw, then the
\* rally draw only if there is a rally, 2 draws or 3 in all; simulate_match
\* takes one draw for the first server before any point is played.
C18_DrawsInOrder == [][C18_PointDraws]_vars /\ [][C18_MatchDraw]_vars

\* an ace served by one of the harness's players from a seeded generator, which
\* is two draws on
C18_Witness ==
    /\ pc = "point_ret"
    /\ rng # None
    /\ pt.server_stats \in Players
    /\ Val(pt.result).point_type = "ace"
    /\ Len(pt.draws) = 2
    /\ \E r \in PreStates : r # None /\ rng = Advance(r, 2)

---------------------------------------------------------------------------
(* Properties of the statistics and the configuration *)

\* C19, the steps: no step of any operation changes USE_OPPONENT_ADJUSTMENT,
\* AVG_RETURN_VS_FIRST or AVG_RETURN_VS_SECOND, nor the PlayerStats records an
\* operation under way was called with.
C19_StepWritesNothing ==
    /\ cfg' = cfg
    /\ (pt # None /\ pt' # None) =>
          (pt'.server_stats = pt.server_stats /\ pt'.returner_stats = pt.returner_stats)
    /\ (gm # None /\ gm' # None) =>
          (gm'.server_stats = gm.server_stats /\ gm'.returner_stats = gm.returner_stats)
    /\ (tb # None /\ tb' # None) =>
          (tb'.p1_stats = tb.p1_stats /\ tb'.p2_stats = tb.p2_stats)
    /\ (st # None /\ st' # None) =>
          (st'.p1_stats = st.p1_stats /\ st'.p2_stats = st.p2_stats)
    /\ (mt # None /\ mt' # None) =>
          (mt'.p1_stats = mt.p1_stats /\ mt'.p2_stats = mt.p2_stats)
    /\ (es # None /\ es' # None) =>
          (es'.p1_stats = es.p1_stats /\ es'.p2_stats = es.p2_stats)

\* C19, the states: the configuration has the values the module gave it, and an
\* operation called by another works on its caller's two records.
C19_SameRecords ==
    /\ cfg = [USE_OPPONENT_ADJUSTMENT |-> TRUE,
              AVG_RETURN_VS_FIRST |-> 35,
              AVG_RETURN_VS_SECOND |-> 50]
    /\ (st # None /\ mt # None) =>
          (st.p1_stats = mt.p1_stats /\ st.p2_stats = mt.p2_stats)
    /\ (mt # None /\ es # None) =>
          (mt.p1_stats = es.p1_stats /\ mt.p2_stats = es.p2_stats)

\* C19: no operation changes the two PlayerStats records or the configuration
\* values: after any sequence of simulations they are what they were before it.
C19_StatsAndConfigReadOnly == [][C19_StepWritesNothing]_vars /\ []C19_SameRecords

\* the harness's second call of the estimator over, two matches in each call
C19_Witness ==
    /\ pc = "estimate_ret"
    /\ Len(hs.results) = 1
    /\ es.n_sims = 2
    /\ es.p1_stats = big_server /\ es.p2_stats = elite_returner
    /\ cfg = Config

---------------------------------------------------------------------------
(* Properties of the serve, from game to game and from set to set *)

\* C20, the games: in a set of a match the game being played, or the last one
\* played when the set is over, is served by the set's first server when it is
\* an odd-numbered game of the set and by the other player when it is an
\* even-numbered one (the game awarded for a tiebreak is not a game served).
C20_ServerOfGame ==
    (pc \in {"set", "set_ret"} /\ mt # None) =>
       LET played == st.p1_games + st.p2_games
                        - (IF st.result # None /\ Val(st.result).tiebreak
                           THEN 1 ELSE 0)
           number == IF pc = "set" THEN played + 1 ELSE played
       IN st.current_server =
             (IF number % 2 = 1 THEN st.first_server ELSE 3 - st.first_server)

\* C20, the sets: when a set ended without a tiebreak, the player who serves
\* first in the next set is the one who did not serve the set's last game.
C20_ServerAfterLastGame ==
    (pc = "set_ret" /\ pc' = "match_loop" /\ ~Val(st.result).tiebreak) =>
       mt'.current_server = 3 - st.current_server

\* C20, the next set: a set starts with the match's current server serving.
C20_SetStartsWithCurrentServer ==
    (pc = "match_loop" /\ pc' = "set") =>
       (st'.first_server = mt.current_server /\ st'.current_server = mt.current_server)

\* C20: within a set the server alternates every game starting from
\* first_server, and for every set that ended without a tiebreak the first
\* server of the next set is the player who did not serve the last game of the
\* set.
C20_ServeAlternatesAcrossSets ==
    /\ []C20_ServerOfGame
    /\ [][C20_ServerAfterLastGame]_vars
    /\ [][C20_SetStartsWithCurrentServer]_vars

\* the second set starting after a 6-3 set: its first server is not the
\* match's
C20_Witness ==
    /\ pc = "set"
    /\ mt # None
    /\ mt.set_scores \in {<<<<6, 3>>>>, <<<<3, 6>>>>}
    /\ st.p1_games + st.p2_games = 0
    /\ st.current_server = 3 - mt.first_server

---------------------------------------------------------------------------
(* Properties of simulate_match, the result *)

\* C21, the sets: each set that is over puts its score at the end of
\* set_scores, after those of the sets played before it, and nothing else
\* changes set_scores.
C21_SetScoresInOrder ==
    /\ (pc = "set_ret" /\ pc' = "match_loop") =>
          /\ Len(mt'.set_scores) = Len(mt.set_scores) + 1
          /\ \A i \in 1..Len(mt.set_scores) : mt'.set_scores[i] = mt.set_scores[i]
          /\ mt'.set_scores[Len(mt'.set_scores)] = Val(st.result).score
    /\ (mt # None /\ mt' # None /\ ~(pc = "set_ret" /\ pc' = "match_loop")) =>
          mt'.set_scores = mt.set_scores

\* C21, the result: the MatchResult has as many set scores as p1_sets + p2_sets,
\* between sets_to_win and 2 * sets_to_win - 1 of them; score[0] is the number
\* of sets in set_scores player 1 won (more games than player 2) and score[1]
\* the number player 2 won; the last set of set_scores was won by the winner;
\* and the winner is 1 if p1_sets > p2_sets and 2 otherwise.
C21_ResultConsistent ==
    pc = "match_ret" =>
       LET r == Val(mt.result)
           n == Len(r.set_scores)
           won1 == {i \in 1..n : r.set_scores[i][1] > r.set_scores[i][2]}
           won2 == {i \in 1..n : r.set_scores[i][2] > r.set_scores[i][1]}
       IN /\ r.set_scores = mt.set_scores
          /\ r.score = <<mt.p1_sets, mt.p2_sets>>
          /\ n = r.score[1] + r.score[2]
          /\ mt.sets_to_win <= n
          /\ n <= 2 * mt.sets_to_win - 1
          /\ r.score[1] = Cardinality(won1)
          /\ r.score[2] = Cardinality(won2)
          /\ n \in (IF r.winner = 1 THEN won1 ELSE won2)
          /\ r.winner \in {1, 2}
          /\ (r.winner = 1) <=> (r.score[1] > r.score[2])

\* C21: the MatchResult is consistent: set_scores lists the sets in the order
\* played, its length is p1_sets + p2_sets and lies between sets_to_win and
\* 2 * sets_to_win - 1, score counts the sets each player won, the last set was
\* won by the match's winner, and winner is 1 iff p1_sets > p2_sets.
C21_MatchResultConsistent == [][C21_SetScoresInOrder]_vars /\ []C21_ResultConsistent

\* a best-of-3 match player 1 wins in three sets after losing the first
C21_Witness ==
    /\ pc = "match_ret"
    /\ mt.best_of = 3
    /\ Val(mt.result).winner = 1
    /\ Val(mt.result).score = <<2, 1>>
    /\ Len(Val(mt.result).set_scores) = 3
    /\ Val(mt.result).set_scores[1][1] < Val(mt.result).set_scores[1][2]

===========================================================================
